---- MODULE Spec2Model ----
(***************************************************************************)
(* The chat backend of src/backend/main.py as a state machine.             *)
(*                                                                         *)
(* State: the conversations table, the database clock that stamps          *)
(* created_at, the rate limiter's per-address counters, and the in-flight  *)
(* /chat requests, each at one of its suspension points.                   *)
(*                                                                         *)
(* The database is MySQL in its default (strict) sql_mode: a value that    *)
(* does not fit its column makes the INSERT fail.  TIMESTAMP columns hold  *)
(* whole seconds.  Rows whose ORDER BY keys are equal come back in any     *)
(* order.  Session identifiers are drawn so that no two of them are equal  *)
(* under the column's collation.                                           *)
(***************************************************************************)
EXTENDS Integers, Sequences, FiniteSets, TLC

VARIABLES
    conversations,   \* the conversations table: rows in insertion (id) order
    now,             \* the database's CURRENT_TIMESTAMP, in seconds
    limiter,         \* per remote address: hits and admissions in the open window
    issued,          \* how many identifiers uuid4 has produced
    reqs,            \* the in-flight /chat requests
    deleted,         \* the outcome of the last DELETE /chat/session/{id}
    probe            \* a direct call of the context builder (SpecContext only)

vars == <<conversations, now, limiter, issued, reqs, deleted, probe>>

(***************************** bounds **************************************)
MaxInflight == 2     \* concurrent /chat requests
MaxRows == 2         \* rows the table holds
MaxClock == 1        \* seconds the database clock advances
MaxBurst == 1        \* hits one address makes in one window (Spec)
MaxHits == 6         \* hits one address makes in one window (SpecGate)

(************************* program constants *******************************)
HistoryLimit == 10
ContextWindow == 5
RateQuota == 5
SessionIdWidth == 36
HTTP_200_OK == 200
HTTP_404_NOT_FOUND == 404
HTTP_429_TOO_MANY_REQUESTS == 429
HTTP_500_INTERNAL_SERVER_ERROR == 500
HTTP_503_SERVICE_UNAVAILABLE == 503

(******************************* inputs ************************************)
Slots == 1..MaxInflight
Clients == {"10.0.0.1", "10.0.0.2"}
Messages == {"m1", "m2"}
Replies == {"r1"}
NoSession == "<None>"            \* ChatRequest.session_id left at its default
LongSid == "0123456789abcdef0123456789abcdef01234"     \* 37 characters
UuidSeq == <<"u1">>              \* successive values of str(uuid.uuid4())
IssuedIds == {UuidSeq[i] : i \in 1..issued}
SuppliedIds == {NoSession, "", "s1", LongSid} \cup IssuedIds
ServiceClients == {"10.0.0.1"}
PathIds == {"s1"} \cup IssuedIds

Min(a, b) == IF a <= b THEN a ELSE b

(************************ the conversations table **************************)
\* One row of the table created by initialize_database.
Row(session_id, user_message, ai_response, created_at) ==
    [session_id |-> session_id, user_message |-> user_message,
     ai_response |-> ai_response, created_at |-> created_at]

\* session_id VARCHAR(36): a longer value does not fit the column.
FitsSessionColumn(session_id) == Len(session_id) <= SessionIdWidth

\* INSERT INTO conversations (session_id, user_message, ai_response):
InsertConversation_Twice(table, session_id, user_message, ai_response, ts) ==
    Append(Append(table, Row(session_id, user_message, ai_response, ts)),
           Row(session_id, user_message, ai_response, ts))

\* the row takes the next AUTO_INCREMENT id, so it comes last in id order, and
\* created_at defaults to CURRENT_TIMESTAMP.
InsertConversation(table, session_id, user_message, ai_response, ts) ==
    Append(table, Row(session_id, user_message, ai_response, ts))

\* WHERE session_id = %s
Matching(table, session_id) ==
    {i \in 1..Len(table) : table[i].session_id = session_id}

\* SELECT user_message, ai_response, created_at
Entry(row) ==
    [user_message |-> row.user_message, ai_response |-> row.ai_response,
     created_at |-> row.created_at]

\* ORDER BY created_at DESC: every arrangement of the matching rows in which
\* created_at never increases; rows of one second come in any order.
OrderByCreatedAtDesc(table, idx) ==
    {q \in [1..Cardinality(idx) -> idx] :
        /\ \A i, j \in 1..Cardinality(idx) : i < j => q[i] /= q[j]
        /\ \A i \in 1..(Cardinality(idx) - 1) :
              table[q[i]].created_at >= table[q[i + 1]].created_at}

\* The rows the cursor fetches: the ordered rows cut by LIMIT %s.
SelectHistory(table, session_id, limit) ==
    {[i \in 1..Min(limit, Len(q)) |-> Entry(table[q[i]])] :
        q \in OrderByCreatedAtDesc(table, Matching(table, session_id))}

\* list(reversed(result))
Reversed(s) == [i \in 1..Len(s) |-> s[Len(s) + 1 - i]]

\* What get_conversation_history can return when the query succeeds.
GetConversationHistory(table, session_id, limit) ==
    {Reversed(result) : result \in SelectHistory(table, session_id, limit)}

\* DELETE FROM conversations WHERE session_id = %s
DeleteRows(table, session_id) ==
    SelectSeq(table, LAMBDA row : row.session_id /= session_id)

\* cur.rowcount after the DELETE
RowCount(table, session_id) == Cardinality(Matching(table, session_id))

(************************** the context builder ****************************)
UserEntry(content) == [role |-> "user", content |-> content]
AssistantEntry(content) == [role |-> "assistant", content |-> content]

LastExchanges_All(history) == history

\* conversation_history[-5:]
LastExchanges(history) ==
    IF Len(history) <= ContextWindow THEN history
    ELSE SubSeq(history, Len(history) - ContextWindow + 1, Len(history))

\* for entry in ...: messages.append(user); messages.append(assistant)
RECURSIVE AppendExchanges(_, _)
AppendExchanges(messages, entries) ==
    IF entries = <<>> THEN messages
    ELSE AppendExchanges(
            Append(Append(messages, UserEntry(Head(entries).user_message)),
                   AssistantEntry(Head(entries).ai_response)),
            Tail(entries))

\* The messages list call_deepseek sends to the model.
BuildMessages(message, conversation_history) ==
    Append(IF conversation_history /= <<>>
           THEN AppendExchanges(<<>>, LastExchanges(conversation_history))
           ELSE <<>>,
           UserEntry(message))

(***************************** the rate gate *******************************)
\* The counter of one address with no open window.
NoWindow == [hits |-> 0, admitted |-> 0, rejectedBefore |-> FALSE]

WithinQuota_OffByOne(count) == count <= RateQuota + 1

\* @limiter.limit("5/minute"): a hit is counted, then compared with the quota.
WithinQuota(count) == count <= RateQuota

(**************************** a /chat request ******************************)
NoReply == "<no reply>"
NoFault == "<no fault>"
NoBody == [response |-> NoReply, session_id |-> NoSession]

Idle ==
    [pc |-> "idle", client |-> "", message |-> "", supplied |-> NoSession,
     session_id |-> NoSession, read_for |-> NoSession, history |-> <<>>,
     read_failed |-> FALSE, messages |-> <<>>, invoked |-> FALSE,
     fault |-> NoFault, ai_response |-> NoReply, inserted |-> 0,
     status |-> 0, ended_at |-> "", body |-> NoBody]

ResolveSession_AlwaysNew(supplied, fresh) == fresh

\* session_id = request.session_id or str(uuid.uuid4())
ResolveSession(supplied, fresh) ==
    IF supplied = NoSession \/ supplied = "" THEN fresh ELSE supplied

GeneratesSession(supplied) == ResolveSession(supplied, "u") /= supplied

\* What can go wrong in call_deepseek, by the place that raises.
InferenceFaults ==
    {"client_construction",   \* get_bedrock_client raises
     "client_error",          \* invoke_model raises botocore ClientError
     "network",               \* invoke_model raises another botocore error
     "malformed"}             \* json.loads or the choices lookup raises

\* except ClientError -> 503; except Exception -> 500
ClassifyFault(fault) ==
    IF fault = "client_error" THEN HTTP_503_SERVICE_UNAVAILABLE
    ELSE HTTP_500_INTERNAL_SERVER_ERROR

PropagateHTTPException_Generic(status_code) == HTTP_500_INTERNAL_SERVER_ERROR

\* chat: except HTTPException: raise
PropagateHTTPException(status_code) == status_code

\* The request arrives: the rate gate, then the first statement of chat.
ChatBegin(r, client, message, supplied) ==
    /\ reqs[r].pc = "idle"
    /\ LET count == limiter[client].hits + 1
           admit == WithinQuota(count)
           new == [Idle EXCEPT !.client = client, !.message = message,
                               !.supplied = supplied]
       IN  /\ limiter' = [limiter EXCEPT ![client] =
                  [hits |-> count,
                   admitted |-> IF admit THEN @.admitted + 1 ELSE @.admitted,
                   rejectedBefore |-> @.rejectedBefore]]
           /\ IF admit
              THEN /\ GeneratesSession(supplied) => issued < Len(UuidSeq)
                   /\ issued' = IF GeneratesSession(supplied)
                                THEN issued + 1 ELSE issued
                   /\ reqs' = [reqs EXCEPT ![r] =
                        [new EXCEPT !.pc = "read",
                                    !.session_id =
                                       ResolveSession(supplied, UuidSeq[issued + 1])]]
              ELSE /\ issued' = issued
                   /\ reqs' = [reqs EXCEPT ![r] =
                        [new EXCEPT !.pc = "done",
                                    !.status = HTTP_429_TOO_MANY_REQUESTS,
                                    !.ended_at = "gate"]]
    /\ UNCHANGED <<conversations, now, deleted, probe>>

ChatHistory_Aborts(r) ==
    /\ reqs[r].pc = "read"
    /\ \/ \E h \in GetConversationHistory(conversations, reqs[r].session_id,
                                          HistoryLimit) :
             reqs' = [reqs EXCEPT ![r].pc = "infer",
                                  ![r].read_for = reqs[r].session_id,
                                  ![r].history = h]
       \/ reqs' = [reqs EXCEPT ![r].pc = "done",
                               ![r].read_for = reqs[r].session_id,
                               ![r].read_failed = TRUE,
                               ![r].ended_at = "read",
                               ![r].status = HTTP_500_INTERNAL_SERVER_ERROR]
    /\ UNCHANGED <<conversations, now, limiter, issued, deleted, probe>>

\* await get_conversation_history(session_id): the query's rows, or [] when
\* the query raises.
ChatHistory(r) ==
    /\ reqs[r].pc = "read"
    /\ \/ \E h \in GetConversationHistory(conversations, reqs[r].session_id,
                                          HistoryLimit) :
             reqs' = [reqs EXCEPT ![r].pc = "infer",
                                  ![r].read_for = reqs[r].session_id,
                                  ![r].history = h]
       \/ reqs' = [reqs EXCEPT ![r].pc = "infer",
                               ![r].read_for = reqs[r].session_id,
                               ![r].history = <<>>,
                               ![r].read_failed = TRUE]
    /\ UNCHANGED <<conversations, now, limiter, issued, deleted, probe>>

InferenceFails_SavesTurn(r, fault) ==
    /\ reqs' = [reqs EXCEPT
          ![r].pc = "done",
          ![r].ended_at = "infer",
          ![r].fault = fault,
          ![r].inserted = @ + 1,
          ![r].status = ClassifyFault(fault)]
    /\ conversations' = Append(conversations,
                            Row(reqs[r].session_id, reqs[r].message, NoReply, now))

\* call_deepseek raises: chat passes the HTTPException on, nothing is saved.
InferenceFails(r, fault) ==
    /\ reqs' = [reqs EXCEPT
          ![r].pc = "done",
          ![r].ended_at = "infer",
          ![r].fault = fault,
          ![r].messages = IF fault = "client_construction" THEN <<>>
                          ELSE BuildMessages(reqs[r].message, reqs[r].history),
          ![r].invoked = (fault /= "client_construction"),
          ![r].status = PropagateHTTPException(ClassifyFault(fault))]
    /\ UNCHANGED conversations

\* call_deepseek returns the model's text.
InferenceSucceeds(r, reply) ==
    /\ reqs' = [reqs EXCEPT
          ![r].pc = "save",
          ![r].messages = BuildMessages(reqs[r].message, reqs[r].history),
          ![r].invoked = TRUE,
          ![r].ai_response = reply]
    /\ UNCHANGED conversations

\* await call_deepseek(message, conversation_history)
ChatInfer(r) ==
    /\ reqs[r].pc = "infer"
    /\ \/ \E reply \in Replies : InferenceSucceeds(r, reply)
       \/ \E fault \in InferenceFaults : InferenceFails(r, fault)
    /\ UNCHANGED <<now, limiter, issued, deleted, probe>>

SaveSucceeds_FromSnapshot(r) ==
    /\ FitsSessionColumn(reqs[r].session_id)
    /\ LET h == reqs[r].history
           seen == [i \in 1..Len(h) |->
                      Row(reqs[r].session_id, h[i].user_message,
                          h[i].ai_response, h[i].created_at)]
       IN  conversations' = InsertConversation(
                                DeleteRows(conversations, reqs[r].session_id) \o seen,
                                reqs[r].session_id, reqs[r].message,
                                reqs[r].ai_response, now)
    /\ reqs' = [reqs EXCEPT
          ![r].pc = "done",
          ![r].ended_at = "save",
          ![r].inserted = @ + 1,
          ![r].status = HTTP_200_OK,
          ![r].body = [response |-> reqs[r].ai_response,
                       session_id |-> reqs[r].session_id]]

\* save_conversation inserts the row; chat returns the ChatResponse.
SaveSucceeds(r) ==
    /\ FitsSessionColumn(reqs[r].session_id)
    /\ conversations' = InsertConversation(conversations,
                            reqs[r].session_id, reqs[r].message,
                            reqs[r].ai_response, now)
    /\ reqs' = [reqs EXCEPT
          ![r].pc = "done",
          ![r].ended_at = "save",
          ![r].inserted = @ + 1,
          ![r].status = HTTP_200_OK,
          ![r].body = [response |-> reqs[r].ai_response,
                       session_id |-> reqs[r].session_id]]

\* save_conversation raises: chat's except Exception answers 500.
SaveFails(r) ==
    /\ reqs' = [reqs EXCEPT
          ![r].pc = "done",
          ![r].ended_at = "save",
          ![r].status = HTTP_500_INTERNAL_SERVER_ERROR]
    /\ UNCHANGED conversations

\* await save_conversation(session_id, user_message, ai_response)
ChatSave(r) ==
    /\ reqs[r].pc = "save"
    /\ \/ SaveSucceeds(r)
       \/ SaveFails(r)
    /\ UNCHANGED <<now, limiter, issued, deleted, probe>>

\* The response has gone to the caller.
ChatReturn(r) ==
    /\ reqs[r].pc = "done"
    /\ reqs' = [reqs EXCEPT ![r] = Idle]
    /\ UNCHANGED <<conversations, now, limiter, issued, deleted, probe>>

(************************* DELETE /chat/session/{id} ***********************)
NoDelete == [session_id |-> NoSession, executed |-> FALSE, status |-> 0, rowcount |-> 0]

DeleteStatus_NeverNotFound(affected_rows) == HTTP_200_OK

\* affected_rows == 0 -> 404, else the success message
DeleteStatus(affected_rows) ==
    IF affected_rows = 0 THEN HTTP_404_NOT_FOUND ELSE HTTP_200_OK

\* The DELETE runs and the handler answers by its rowcount, or the statement
\* raises and the handler answers 500.
DeleteSession(session_id) ==
    /\ \/ /\ conversations' = DeleteRows(conversations, session_id)
          /\ deleted' = [session_id |-> session_id, executed |-> TRUE,
                         status |-> DeleteStatus(RowCount(conversations, session_id)),
                         rowcount |-> RowCount(conversations, session_id)]
       \/ /\ conversations' = conversations
          /\ deleted' = [session_id |-> session_id, executed |-> FALSE,
                         status |-> HTTP_500_INTERNAL_SERVER_ERROR,
                         rowcount |-> 0]
    /\ UNCHANGED <<now, limiter, issued, reqs, probe>>

\* The handler's answer has gone to the caller.
DeleteReturn ==
    /\ deleted /= NoDelete
    /\ deleted' = NoDelete
    /\ UNCHANGED <<conversations, now, limiter, issued, reqs, probe>>

(****************************** the clocks *********************************)
\* A second passes on the database's clock.
Tick ==
    /\ now < MaxClock
    /\ now' = now + 1
    /\ UNCHANGED <<conversations, limiter, issued, reqs, deleted, probe>>

\* The rate limit's window of an address runs out: its counter is dropped.
WindowElapses(client) ==
    /\ limiter[client].hits > 0
    /\ limiter' = [limiter EXCEPT ![client] =
          [NoWindow EXCEPT !.rejectedBefore = limiter[client].hits > RateQuota]]
    /\ UNCHANGED <<conversations, now, issued, reqs, deleted, probe>>

(**************************** the service **********************************)
NoProbe == [stage |-> "none", message |-> "", history |-> <<>>, messages |-> <<>>]

Init ==
    /\ conversations = <<>>
    /\ now = 0
    /\ limiter = [c \in Clients |-> NoWindow]
    /\ issued = 0
    /\ reqs = [r \in Slots |-> Idle]
    /\ deleted = NoDelete
    /\ probe = NoProbe

\* A handler that has computed its answer has no suspension point left: the
\* answer leaves before any other step is scheduled.
Answering == deleted /= NoDelete \/ \E r \in Slots : reqs[r].pc = "done"

\* Requests take the free slots in order.
FirstIdle(r) == \A q \in Slots : q < r => reqs[q].pc /= "idle"

\* Some row carries the current second: seconds in which nothing is written
\* are not counted.
Stamped == \E i \in 1..Len(conversations) : conversations[i].created_at = now

\* No request is in flight.
Quiet == \A r \in Slots : reqs[r].pc = "idle"

\* The service with its callers taking turns.
Next ==
    \/ \E r \in Slots, c \in ServiceClients, m \in Messages, s \in SuppliedIds :
          /\ ~Answering /\ Quiet /\ FirstIdle(r) /\ limiter[c].hits < MaxBurst
          /\ ChatBegin(r, c, m, s)
    \/ \E r \in Slots : ~Answering /\ ChatHistory(r)
    \/ \E r \in Slots : ~Answering /\ ChatInfer(r)
    \/ \E r \in Slots : ~Answering /\ Len(conversations) < MaxRows /\ ChatSave(r)
    \/ \E r \in Slots : ChatReturn(r)
    \/ \E s \in PathIds : ~Answering /\ DeleteSession(s)
    \/ DeleteReturn
    \/ ~Answering /\ Stamped /\ Tick
    \/ \E c \in ServiceClients : ~Answering /\ WindowElapses(c)

Spec == Init /\ [][Next]_vars

(************************* the rate gate alone *****************************)
\* The same handlers with one payload and every address, each address
\* hitting the gate until it is turned away.
GateMessages == {"m1"}
GateSessions == {"s1"}

NextGate ==
    \/ \E r \in Slots, c \in Clients, m \in GateMessages, s \in GateSessions :
          /\ ~Answering /\ Quiet /\ FirstIdle(r) /\ limiter[c].hits < MaxHits
          /\ ChatBegin(r, c, m, s)
    \/ \E r \in Slots : ~Answering /\ ChatHistory(r)
    \/ \E r \in Slots : ~Answering /\ ChatInfer(r)
    \/ \E r \in Slots : ~Answering /\ Len(conversations) < MaxRows /\ ChatSave(r)
    \/ \E r \in Slots : ChatReturn(r)
    \/ \E s \in GateSessions : ~Answering /\ DeleteSession(s)
    \/ DeleteReturn
    \/ \E c \in Clients : ~Answering /\ WindowElapses(c)

SpecGate == Init /\ [][NextGate]_vars

(********************* requests in flight together ************************)
\* One session under a burst of requests, one request to a slot; every
\* await of chat is a point where another request's step may come first,
\* and a slot keeps the answer its request got.
BurstSessions == {"s1"}

NextBurst ==
    \/ \E r \in Slots, c \in ServiceClients, m \in Messages, s \in BurstSessions :
          FirstIdle(r) /\ ChatBegin(r, c, m, s)
    \/ \E r \in Slots : ChatHistory(r)
    \/ \E r \in Slots : ChatInfer(r)
    \/ \E r \in Slots : ChatSave(r)
    \/ Stamped /\ Tick

SpecBurst == Init /\ [][NextBurst]_vars

(********************** the context builder alone **************************)
ContextReplies == <<"r1", "r2">>

\* A history of n exchanges as get_conversation_history returns it: the
\* user messages are f's, the replies alternate from the a-th on.
HistoryOf(n, f, a) ==
    [i \in 1..n |-> [user_message |-> f[i],
                     ai_response |-> ContextReplies[((i + a) % 2) + 1],
                     created_at |-> i]]

Histories ==
    UNION {{HistoryOf(n, f, a) : f \in [1..n -> Messages], a \in 0..1} :
              n \in 0..HistoryLimit}

InitContext ==
    /\ conversations = <<>>
    /\ now = 0
    /\ limiter = [c \in Clients |-> NoWindow]
    /\ issued = 0
    /\ reqs = [r \in Slots |-> Idle]
    /\ deleted = NoDelete
    /\ probe \in {[stage |-> "input", message |-> m, history |-> h, messages |-> <<>>] :
                     m \in Messages, h \in Histories}

\* call_deepseek builds its messages list from the probe's inputs.
ContextCall ==
    /\ probe.stage = "input"
    /\ probe' = [probe EXCEPT !.stage = "built",
                              !.messages = BuildMessages(probe.message, probe.history)]
    /\ UNCHANGED <<conversations, now, limiter, issued, reqs, deleted>>

NextContext == ContextCall

SpecContext == InitContext /\ [][NextContext]_vars

(******************************* claims ************************************)

\* Request r has got past the rate gate.
Admitted(r) ==
    reqs[r].pc \in {"read", "infer", "save"}
        \/ (reqs[r].pc = "done" /\ reqs[r].ended_at /= "gate")

\* Request r has just answered 200.
Succeeded(r) == reqs[r].pc = "done" /\ reqs[r].status = HTTP_200_OK

\* The step is request r's, and it ends with the 200 answer.
Completes(r) == reqs[r].pc /= "done" /\ reqs'[r].pc = "done" /\ reqs'[r].status = HTTP_200_OK

\* C1: whenever call_deepseek fails, as service-unavailable or as unexpected
\* failure, the request ends there: it has inserted no row, and the step in
\* which the inference fails leaves the table as it was.
C1_NoTurnWithoutReply ==
    /\ [](\A r \in Slots :
            reqs[r].pc = "done" /\ reqs[r].fault /= NoFault =>
                /\ reqs[r].ended_at = "infer"
                /\ reqs[r].inserted = 0
                /\ reqs[r].status \in {HTTP_503_SERVICE_UNAVAILABLE,
                                       HTTP_500_INTERNAL_SERVER_ERROR})
    /\ [][\A r \in Slots :
            reqs[r].pc = "infer" /\ reqs'[r].pc = "done" =>
                conversations' = conversations]_vars

\* A table that holds rows, and a request whose inference the provider
\* refused.
C1_Witness ==
    /\ conversations /= <<>>
    /\ \E r \in Slots :
          /\ reqs[r].pc = "done"
          /\ reqs[r].fault = "client_error"
          /\ reqs[r].status = HTTP_503_SERVICE_UNAVAILABLE

\* C2: a chat call that answers 200 has inserted exactly one row, in the step
\* that produced the answer; the row is added after the rows already there,
\* which stay as they were, and carries the answer's session_id, the
\* request's message and the answer's reply, so the session has one Turn
\* more; every other step of a request leaves the table alone.
C2_OneTurnPerSuccess ==
    /\ [](\A r \in Slots : Succeeded(r) => reqs[r].inserted = 1)
    /\ [][\A r \in Slots :
            reqs'[r] /= reqs[r] =>
                IF Completes(r)
                THEN /\ Len(conversations') = Len(conversations) + 1
                     /\ SubSeq(conversations', 1, Len(conversations)) = conversations
                     /\ LET turn == conversations'[Len(conversations')]
                        IN  /\ turn.session_id = reqs'[r].body.session_id
                            /\ turn.user_message = reqs[r].message
                            /\ turn.ai_response = reqs'[r].body.response
                     /\ RowCount(conversations', reqs'[r].body.session_id)
                           = RowCount(conversations, reqs'[r].body.session_id) + 1
                ELSE conversations' = conversations]_vars

\* The second of two successful calls on one session has answered.
C2_Witness ==
    \E r \in Slots :
        /\ Succeeded(r)
        /\ RowCount(conversations, reqs[r].body.session_id) = 2

\* C3 as first stated: whatever identifier the caller supplies, the empty
\* string included, is the one the request works under.
C3_AsStated ==
    \A r \in Slots :
        Admitted(r) /\ reqs[r].supplied /= NoSession =>
            reqs[r].session_id = reqs[r].supplied

\* C3, amended: a non-empty identifier the caller supplies is the one the
\* request reads history for, appends under and returns, whether or not the
\* table holds Turns for it, and no identifier is generated; when the caller
\* supplies none, or the empty string, the request works under a newly
\* generated identifier.
C3_SessionResolution ==
    /\ [](\A r \in Slots :
            Admitted(r) =>
                /\ reqs[r].supplied \notin {NoSession, ""} =>
                       reqs[r].session_id = reqs[r].supplied
                /\ reqs[r].supplied \in {NoSession, ""} =>
                       reqs[r].session_id \in IssuedIds
                /\ reqs[r].pc /= "read" => reqs[r].read_for = reqs[r].session_id
                /\ Succeeded(r) =>
                       /\ reqs[r].body.session_id = reqs[r].session_id
                       /\ conversations[Len(conversations)].session_id
                             = reqs[r].session_id)
    /\ [][\A r \in Slots :
            reqs[r].pc = "idle" /\ reqs'[r].pc = "read" =>
                IF reqs'[r].supplied \in {NoSession, ""}
                THEN /\ issued' = issued + 1
                     /\ reqs'[r].session_id \notin IssuedIds
                     /\ reqs'[r].session_id /= reqs'[r].supplied
                ELSE issued' = issued]_vars

\* A call under a supplied identifier that had no Turns has answered.
C3_Witness ==
    \E r \in Slots :
        /\ Succeeded(r)
        /\ reqs[r].supplied = "s1"
        /\ reqs[r].body.session_id = "s1"
        /\ RowCount(conversations, "s1") = 1

\* C4: for a history of n Turns, 0 <= n <= 10, and a new message, the
\* messages list has 2*min(n,5)+1 entries: the last min(n,5) Turns in order,
\* each as a user entry then an assistant entry, and last a user entry with
\* the new message.
C4_ContextWindow ==
    probe.stage = "built" =>
        LET n == Len(probe.history)
            k == Min(n, ContextWindow)
        IN  /\ n <= HistoryLimit
            /\ Len(probe.messages) = 2 * k + 1
            /\ \A j \in 1..k :
                  /\ probe.messages[2 * j - 1]
                        = UserEntry(probe.history[n - k + j].user_message)
                  /\ probe.messages[2 * j]
                        = AssistantEntry(probe.history[n - k + j].ai_response)
            /\ probe.messages[2 * k + 1] = UserEntry(probe.message)

\* The context of a full history read of ten Turns.
C4_Witness ==
    /\ probe.stage = "built"
    /\ Len(probe.history) = HistoryLimit
    /\ Len(probe.messages) = 2 * ContextWindow + 1

\* The Turns of a session as they were written, oldest first.
Written(table, session_id) ==
    LET rows == SelectSeq(table, LAMBDA row : row.session_id = session_id)
    IN  [i \in 1..Len(rows) |-> Entry(rows[i])]

\* The step is request r's history read, and the query succeeds.
Reads(r) ==
    reqs[r].pc = "read" /\ reqs'[r].pc = "infer" /\ ~reqs'[r].read_failed

\* C5: the history a request reads presents the session's Turns in the order
\* they were written, Turns written in the same second included, and the
\* context built from it keeps that order and ends with the new message.
C5_WriteOrder ==
    [][\A r \in Slots :
          /\ Reads(r) =>
                LET written == Written(conversations, reqs[r].session_id)
                    h == reqs'[r].history
                IN  \A i, j \in 1..Len(h) :
                        i < j => \E a, b \in 1..Len(written) :
                                    a < b /\ written[a] = h[i] /\ written[b] = h[j]
          /\ reqs[r].pc = "infer" /\ reqs'[r].invoked =>
                LET h == reqs[r].history
                    m == reqs'[r].messages
                IN  /\ Len(m) = 2 * Len(h) + 1
                    /\ \A i \in 1..Len(h) :
                          /\ m[2 * i - 1].content = h[i].user_message
                          /\ m[2 * i].content = h[i].ai_response
                    /\ m[Len(m)].content = reqs[r].message]_vars

\* C6: a history read returns at most the limit of Turns: the most recently
\* written ones of the session and of no other, oldest first, and none for a
\* session without Turns.
C6_RecentHistory ==
    [][\A r \in Slots :
          Reads(r) =>
              LET written == Written(conversations, reqs[r].session_id)
                  h == reqs'[r].history
                  n == Min(HistoryLimit, Len(written))
              IN  /\ Len(h) <= HistoryLimit
                  /\ h = SubSeq(written, Len(written) - n + 1, Len(written))]_vars

\* The step is an answer of DELETE /chat/session/{id}.
Deletes == deleted = NoDelete /\ deleted' /= NoDelete

\* What the session deletion promises when the statement runs.
DeletionDone(session_id) ==
    LET n == RowCount(conversations, session_id)
    IN  /\ deleted'.rowcount = n
        /\ Len(conversations') = Len(conversations) - n
        /\ \A i \in 1..Len(conversations) :
              LET other == conversations[i].session_id
              IN  Written(conversations', other)
                     = IF other = session_id THEN <<>>
                       ELSE Written(conversations, other)
        /\ GetConversationHistory(conversations', session_id, HistoryLimit) = {<<>>}
        /\ n = 0 => /\ deleted'.status = HTTP_404_NOT_FOUND
                    /\ conversations' = conversations
        /\ n >= 1 => deleted'.status = HTTP_200_OK

\* C7 as first stated: deleting a session without Turns always answers
\* not-found, never the generic failure; deleting one with N Turns removes
\* them and answers success.
C7_AsStated == [][Deletes => DeletionDone(deleted'.session_id)]_vars

\* C7, amended: when the DELETE statement runs, a session without Turns gets
\* the not-found answer and the table stays as it was, and a session with
\* N >= 1 Turns loses exactly those N, every other session keeps its Turns,
\* the answer is success and a history read of the session then returns
\* nothing; when the statement raises, the answer is the generic failure and
\* the table stays as it was.
C7_SessionDeletion ==
    [][Deletes =>
          IF deleted'.executed
          THEN DeletionDone(deleted'.session_id)
          ELSE /\ deleted'.status = HTTP_500_INTERNAL_SERVER_ERROR
               /\ conversations' = conversations]_vars

\* A session's Turn has been deleted and another session's Turn remains.
C7_Witness ==
    /\ deleted.executed
    /\ deleted.status = HTTP_200_OK
    /\ deleted.rowcount >= 1
    /\ conversations /= <<>>
    /\ RowCount(conversations, deleted.session_id) = 0

\* The step is the arrival of request r from the address client.
Arrives(r, client) ==
    reqs[r].pc = "idle" /\ reqs'[r].pc /= "idle" /\ limiter'[client] /= limiter[client]

\* Request r has been turned away by the rate gate.
Rejected(r) == reqs[r].status = HTTP_429_TOO_MANY_REQUESTS

C9_FailureClasses ==
    \A r \in Slots :
        reqs[r].pc = "done" /\ reqs[r].fault /= NoFault =>
            reqs[r].status = IF reqs[r].fault = "client_error"
                             THEN HTTP_503_SERVICE_UNAVAILABLE
                             ELSE HTTP_500_INTERNAL_SERVER_ERROR

\* The provider has refused the one attempt made with the built context.
C9_Witness ==
    \E r \in Slots :
        /\ reqs[r].pc = "done"
        /\ reqs[r].fault = "client_error"
        /\ reqs[r].invoked
        /\ reqs[r].messages /= <<>>
        /\ reqs[r].status = HTTP_503_SERVICE_UNAVAILABLE

C11_ReplyDespiteAppendFailure ==
    \A r \in Slots :
        /\ reqs[r].pc = "done"
        /\ reqs[r].ended_at = "save"
        /\ reqs[r].ai_response /= NoReply
        => /\ reqs[r].status = HTTP_200_OK
           /\ reqs[r].body = [response |-> reqs[r].ai_response,
                              session_id |-> reqs[r].session_id]

\* The requests of the burst that have answered 200.
Stored == {r \in Slots : Succeeded(r)}

\* Every request of the burst has answered.
AllFinished == \A r \in Slots : reqs[r].pc = "done"

\* Row row is the Turn of the answered request req.
TurnOf(row, req) ==
    /\ row.session_id = req.body.session_id
    /\ row.user_message = req.message
    /\ row.ai_response = req.body.response

\* C12: however the history reads, inference calls and inserts of requests
\* on one session interleave, the table holds exactly one Turn for each
\* request that has answered 200 and nothing else, at every moment and so
\* once all have finished; no step removes or changes a row that is there,
\* each insert landing after the rows present at its moment, in whichever
\* order the requests reach it; and what a request has read is made of rows
\* of the table only, so it may lack a Turn inserted after its read.
C12_ConcurrentAppends ==
    /\ [](/\ Len(conversations) = Cardinality(Stored)
          /\ \E f \in [1..Len(conversations) -> Stored] :
                /\ \A i, j \in 1..Len(conversations) : i /= j => f[i] /= f[j]
                /\ \A i \in 1..Len(conversations) : TurnOf(conversations[i], reqs[f[i]])
          /\ \A r \in Slots : \A k \in 1..Len(reqs[r].history) :
                \E i \in 1..Len(conversations) :
                    reqs[r].history[k] = Entry(conversations[i]))
    /\ [][/\ Len(conversations') >= Len(conversations)
          /\ SubSeq(conversations', 1, Len(conversations)) = conversations
          /\ \A r \in Slots :
                Completes(r) =>
                    /\ Len(conversations') = Len(conversations) + 1
                    /\ TurnOf(conversations'[Len(conversations')], reqs'[r])]_vars

\* Two requests were in flight together and both have answered 200: the one
\* that arrived second inserted first, and neither read the other's Turn.
C12_Witness ==
    /\ AllFinished
    /\ \E r, q \in Slots :
          /\ r < q
          /\ Succeeded(r) /\ Succeeded(q)
          /\ reqs[r].message = "m1" /\ reqs[q].message = "m2"
          /\ ~reqs[r].read_failed /\ reqs[r].history = <<>>
          /\ ~reqs[q].read_failed /\ reqs[q].history = <<>>
          /\ Len(conversations) = 2
          /\ conversations[1].user_message = "m2"
          /\ conversations[2].user_message = "m1"

====
